---- MODULE Spec2Model ----
(***************************************************************************)
(* A model of walkdir's recursive directory iterator (src/src/lib.rs):     *)
(* the builder WalkDir, the iterator IntoIter with its stack of DirList    *)
(* handles, and the FilterEntry adapter, run over a small file system.     *)
(*                                                                         *)
(* A path is the sequence of the names of its components, the first being  *)
(* the root's; a name is the number of the node that carries it, so names  *)
(* compare as integers.  A file system is a record                         *)
(*   n       the number of nodes, 0 .. n-1, node 0 being the root          *)
(*   parent  the directory that holds each node (the root holds itself)    *)
(*   kind    "dir", "file" or "symlink"                                    *)
(*   target  the node a symlink points to, -1 for a dangling link          *)
(*   openErr the directories that read_dir fails to open                   *)
(*   order   "desc" or "asc": the order in which read_dir lists names      *)
(*   dev     the device (file system) each node lies on                    *)
(*   entryErr the nodes whose directory entry gives no file type            *)
(***************************************************************************)
EXTENDS Integers, Sequences, FiniteSets, TLC

\* Bounds of the model.
MaxNodes == 4
MaxOpenCap == 2
DepthCap == 2

\* usize::MAX, the default of max_depth (narrowed to TLC's integers).
UsizeMax == 2147483647
\* The default of max_open.
DefaultMaxOpen == 10

(***************************************************************************)
(* Values: Option, Result, DirEntry, Error.                                *)
(***************************************************************************)
NoPath == <<>>
NoEnt == [path |-> NoPath, ty |-> "none", follow_link |-> FALSE, depth |-> 0, ino |-> -1]
NoErr == [kind |-> "none", depth |-> 0, path |-> NoPath, ancestor |-> NoPath, child |-> NoPath]

Ok(d) == [ok |-> TRUE, ent |-> d, err |-> NoErr]
Err(e) == [ok |-> FALSE, ent |-> NoEnt, err |-> e]
NoResult == [ok |-> FALSE, ent |-> NoEnt, err |-> NoErr]

None == [some |-> FALSE, val |-> NoResult]
Some(r) == [some |-> TRUE, val |-> r]

\* Error::from_path: an I/O error that carries the path it concerns.
Error_from_path(depth, pb) ==
  [kind |-> "io", depth |-> depth, path |-> pb, ancestor |-> NoPath, child |-> NoPath]

\* Error::from_io: an I/O error without a path.
Error_from_io(depth) ==
  [kind |-> "io", depth |-> depth, path |-> NoPath, ancestor |-> NoPath, child |-> NoPath]

\* ErrorInner::Loop, as check_loop builds it.
Error_loop(depth, ancestor, child) ==
  [kind |-> "loop", depth |-> depth, path |-> NoPath, ancestor |-> ancestor, child |-> child]

(***************************************************************************)
(* The file system the iterator reads.                                     *)
(***************************************************************************)
Last(s) == s[Len(s)]

NodesOf(fs) == 0 .. (fs.n - 1)

ChildrenOf(fs, d) == {c \in NodesOf(fs) : c # 0 /\ fs.parent[c] = d}

Max(S) == CHOOSE x \in S : \A y \in S : y <= x

RECURSIVE DescSeq(_)
DescSeq(S) == IF S = {} THEN <<>> ELSE <<Max(S)>> \o DescSeq(S \ {Max(S)})

RECURSIVE AscSeq(_)
AscSeq(S) == IF S = {} THEN <<>> ELSE AscSeq(S \ {Max(S)}) \o <<Max(S)>>

\* The order in which the platform lists a directory: unspecified by the
\* library, here by descending name, so that it differs from the sorted
\* order, or by ascending name.
ListingOf(fs, d) ==
  IF fs.order = "asc" THEN AscSeq(ChildrenOf(fs, d)) ELSE DescSeq(ChildrenOf(fs, d))

\* fs::metadata follows symlinks to the final target; -1 is an error (a
\* dangling link, or more levels of links than the platform follows).
RECURSIVE resolve(_, _, _)
resolve(fs, node, fuel) ==
  IF fs.kind[node] # "symlink" THEN node
  ELSE IF fuel = 0 \/ fs.target[node] = -1 THEN -1
  ELSE resolve(fs, fs.target[node], fuel - 1)

fs_metadata(fs, pb) == resolve(fs, Last(pb), fs.n)

\* fs::read_dir: the handle (the directory's path and the names not yet
\* returned), or an error.
fs_read_dir(fs, pb) ==
  LET node == fs_metadata(fs, pb) IN
  IF node = -1 \/ fs.kind[node] # "dir" \/ node \in fs.openErr
  THEN [ok |-> FALSE, rd |-> [path |-> pb, rest |-> <<>>]]
  ELSE [ok |-> TRUE, rd |-> [path |-> pb, rest |-> ListingOf(fs, node)]]

\* same_file::is_same_file on unix: compares the (dev, ino) of both targets.
is_same_file(fs, p1, p2) ==
  LET md1 == fs_metadata(fs, p1)
      md2 == fs_metadata(fs, p2)
  IN IF md1 = -1 \/ md2 = -1 THEN [ok |-> FALSE, same |-> FALSE]
     ELSE [ok |-> TRUE, same |-> (md1 = md2)]

(***************************************************************************)
(* DirEntry and DirList.                                                   *)
(***************************************************************************)
\* DirEntry::from_entry: the record of a raw directory entry; the file type
\* is the entry's own (a symlink is not followed), and an entry whose
\* file_type() fails gives an error with the entry's path.
from_entry(fs, depth, rd, name) ==
  IF name \in fs.entryErr THEN Err(Error_from_path(depth, Append(rd.path, name)))
  ELSE
  Ok([path |-> Append(rd.path, name), ty |-> fs.kind[name], follow_link |-> FALSE,
      depth |-> depth, ino |-> name])

\* from_link broken: the file type is the path's own (symlink_metadata).
from_link_lstat(fs, depth, pb) ==
  Ok([path |-> pb, ty |-> fs.kind[Last(pb)], follow_link |-> TRUE,
      depth |-> depth, ino |-> Last(pb)])

\* DirEntry::from_link: the record of a path, by fs::metadata (which follows
\* symlinks).
from_link(fs, depth, pb) ==
  LET md == fs_metadata(fs, pb) IN
  IF md = -1 THEN Err(Error_from_path(depth, pb))
  ELSE Ok([path |-> pb, ty |-> fs.kind[md], follow_link |-> TRUE,
           depth |-> depth, ino |-> md])

file_name(dent) == Last(dent.path)

\* DirEntry::path_is_symbolic_link: the entry was made from a symlink.
path_is_symbolic_link(dent) == dent.ty = "symlink" \/ dent.follow_link

\* DirEntry::metadata, as the file type it reports: fs::metadata when the
\* follow_link flag is set, fs::symlink_metadata otherwise; "none" is an error.
DirEntry_metadata(fs, dent) ==
  IF dent.follow_link
  THEN LET md == fs_metadata(fs, dent.path) IN
       IF md = -1 THEN "none" ELSE fs.kind[md]
  ELSE fs.kind[Last(dent.path)]

\* DirEntry::file_type
DirEntry_file_type(dent) == dent.ty

\* DirList::Opened { depth, it }: it is Ok(rd), or Err(err) with err: Option<Error>.
Opened(depth, ok, rd, err) ==
  [tag |-> "Opened", depth |-> depth, ok |-> ok, rd |-> rd, err |-> err, items |-> <<>>]

\* DirList::Closed(entries.into_iter())
Closed(items) ==
  [tag |-> "Closed", depth |-> 0, ok |-> FALSE, rd |-> [path |-> NoPath, rest |-> <<>>],
   err |-> None, items |-> items]

\* Whether a listing holds an open directory handle.
HoldsHandle(list) == list.tag = "Opened" /\ list.ok

\* DirList::next broken: an entry gets the depth of its directory.
DirList_next_same_depth(fs, list) ==
  IF list.tag = "Closed" THEN
    IF list.items = <<>> THEN [list |-> list, ret |-> None]
    ELSE [list |-> [list EXCEPT !.items = Tail(@)], ret |-> Some(Head(list.items))]
  ELSE IF ~list.ok THEN
    [list |-> [list EXCEPT !.err = None], ret |-> list.err]
  ELSE IF list.rd.rest = <<>> THEN [list |-> list, ret |-> None]
  ELSE [list |-> [list EXCEPT !.rd.rest = Tail(@)],
        ret |-> Some(from_entry(fs, list.depth, list.rd, Head(list.rd.rest)))]

\* <DirList as Iterator>::next: the listing after the call, and what it returned.
DirList_next(fs, list) ==
  IF list.tag = "Closed" THEN
    IF list.items = <<>> THEN [list |-> list, ret |-> None]
    ELSE [list |-> [list EXCEPT !.items = Tail(@)], ret |-> Some(Head(list.items))]
  ELSE IF ~list.ok THEN
    \* err.take().map(Err)
    [list |-> [list EXCEPT !.err = None], ret |-> list.err]
  ELSE IF list.rd.rest = <<>> THEN [list |-> list, ret |-> None]
  ELSE [list |-> [list EXCEPT !.rd.rest = Tail(@)],
        ret |-> Some(from_entry(fs, list.depth + 1, list.rd, Head(list.rd.rest)))]

\* Iterator::collect on a DirList: every item next() still returns, in order.
RECURSIVE DirList_collect(_, _)
DirList_collect(fs, list) ==
  LET r == DirList_next(fs, list) IN
  IF ~r.ret.some THEN <<>> ELSE <<r.ret.val>> \o DirList_collect(fs, r.list)

\* DirList::close broken: the entries not yet read are forgotten.
DirList_close_forgets(fs, list) ==
  IF list.tag = "Opened" THEN Closed(<<>>) ELSE list

\* DirList::close
DirList_close(fs, list) ==
  IF list.tag = "Opened" THEN Closed(DirList_collect(fs, list)) ELSE list

(***************************************************************************)
(* sort_by.                                                                *)
(***************************************************************************)
\* The comparison function given to WalkDir::sort_by: by file name.
sorter_cmp(a, b) ==
  IF file_name(a) < file_name(b) THEN "Less"
  ELSE IF file_name(a) > file_name(b) THEN "Greater" ELSE "Equal"

\* The closure push gives to entries.sort_by.
push_sort_cmp(a, b) ==
  IF a.ok /\ b.ok THEN sorter_cmp(a.ent, b.ent)
  ELSE IF ~a.ok /\ ~b.ok THEN "Equal"
  ELSE IF a.ok /\ ~b.ok THEN "Greater"
  ELSE "Less"

\* x placed after every element of the sorted s that is not greater than it.
RECURSIVE sort_insert(_, _)
sort_insert(s, x) ==
  IF s = <<>> THEN <<x>>
  ELSE IF push_sort_cmp(Last(s), x) = "Greater"
       THEN Append(sort_insert(SubSeq(s, 1, Len(s) - 1), x), Last(s))
       ELSE Append(s, x)

\* slice::sort_by, a stable sort.
RECURSIVE sort_by(_)
sort_by(s) ==
  IF s = <<>> THEN <<>>
  ELSE sort_insert(sort_by(SubSeq(s, 1, Len(s) - 1)), Last(s))

(***************************************************************************)
(* The builder WalkDir.                                                    *)
(***************************************************************************)
WalkDir_new ==
  [follow_links |-> FALSE, max_open |-> DefaultMaxOpen, min_depth |-> 0,
   max_depth |-> UsizeMax, sorter |-> FALSE, contents_first |-> FALSE,
   same_file_system |-> FALSE]

\* min_depth broken: the depth is stored without looking at max_depth.
WalkDir_min_depth_unclamped(opts, depth) == [opts EXCEPT !.min_depth = depth]

WalkDir_min_depth(opts, depth) ==
  [opts EXCEPT !.min_depth = IF depth > opts.max_depth THEN opts.max_depth ELSE depth]

WalkDir_max_depth(opts, depth) ==
  [opts EXCEPT !.max_depth = IF depth < opts.min_depth THEN opts.min_depth ELSE depth]

WalkDir_follow_links(opts, yes) == [opts EXCEPT !.follow_links = yes]

WalkDir_max_open(opts, n) == [opts EXCEPT !.max_open = IF n = 0 THEN 1 ELSE n]

\* sort_by with the comparison by file name; unset when yes is FALSE.
WalkDir_sort_by(opts, yes) == [opts EXCEPT !.sorter = yes]

WalkDir_contents_first(opts, yes) == [opts EXCEPT !.contents_first = yes]

WalkDir_same_file_system(opts, yes) == [opts EXCEPT !.same_file_system = yes]

\* The path given to WalkDir::new.
RootPath == <<0>>

\* <WalkDir as IntoIterator>::into_iter.  start is Some(root) as a one-element
\* sequence, None as the empty one.  panicked records that a call panicked.
into_iter(opts) ==
  [opts |-> opts, start |-> <<RootPath>>, stack_list |-> <<>>, stack_path |-> <<>>,
   oldest_opened |-> 0, depth |-> 0, deferred_dirs |-> <<>>, panicked |-> FALSE]

(***************************************************************************)
(* IntoIter.                                                               *)
(***************************************************************************)
Min(a, b) == IF a < b THEN a ELSE b

Front(s) == SubSeq(s, 1, Len(s) - 1)

\* skippable broken: an entry at min_depth is suppressed too.
skippable_off_by_one(it) ==
  it.depth <= it.opts.min_depth \/ it.depth > it.opts.max_depth

\* IntoIter::skippable
skippable(it) == it.depth < it.opts.min_depth \/ it.depth > it.opts.max_depth

\* IntoIter::pop.  Both expect() calls panic on an empty stack.
pop(it) ==
  IF it.stack_list = <<>> \/ (it.opts.follow_links /\ it.stack_path = <<>>)
  THEN [it EXCEPT !.panicked = TRUE]
  ELSE [it EXCEPT !.stack_list = Front(@),
                  !.stack_path = IF it.opts.follow_links THEN Front(@) ELSE @,
                  !.oldest_opened = Min(@, Len(it.stack_list) - 1)]

\* skip_current_dir broken: the path stack is left as it is.
skip_current_dir_keeps_path(it) ==
  [it EXCEPT !.stack_list = IF @ # <<>> THEN Front(@) ELSE @]

\* IntoIter::skip_current_dir
skip_current_dir(it) ==
  [it EXCEPT !.stack_list = IF @ # <<>> THEN Front(@) ELSE @,
             !.stack_path = IF @ # <<>> THEN Front(@) ELSE @]

\* push broken: the oldest open handle is not closed when max_open is hit.
push_keeps_open(fs, it, dent) ==
  IF Len(it.stack_list) < it.oldest_opened THEN [it EXCEPT !.panicked = TRUE]
  ELSE
    LET rd == fs_read_dir(fs, dent.path)
        list == Opened(it.depth, rd.ok, rd.rd,
                       IF rd.ok THEN None
                       ELSE Some(Err(Error_from_path(it.depth, dent.path))))
        list1 == IF it.opts.sorter THEN Closed(sort_by(DirList_collect(fs, list)))
                 ELSE list
    IN [it EXCEPT !.stack_list = Append(@, list1),
                  !.stack_path = IF it.opts.follow_links THEN Append(@, dent.path) ELSE @]

\* push broken: the entries are left in the order read_dir lists them.
push_unsorted(fs, it, dent) ==
  IF Len(it.stack_list) < it.oldest_opened THEN [it EXCEPT !.panicked = TRUE]
  ELSE
    LET full == Len(it.stack_list) - it.oldest_opened = it.opts.max_open
        it1 == IF full
               THEN [it EXCEPT
                       !.stack_list[it.oldest_opened + 1] = DirList_close(fs, @),
                       !.oldest_opened = @ + 1]
               ELSE it
        rd == fs_read_dir(fs, dent.path)
        list == Opened(it.depth, rd.ok, rd.rd,
                       IF rd.ok THEN None
                       ELSE Some(Err(Error_from_path(it.depth, dent.path))))
    IN [it1 EXCEPT !.stack_list = Append(@, list),
                   !.stack_path = IF it.opts.follow_links THEN Append(@, dent.path) ELSE @]

\* push broken: oldest_opened moves on, but the listing it pointed at is
\* left open.
push_advances_without_close(fs, it, dent) ==
  IF Len(it.stack_list) < it.oldest_opened THEN [it EXCEPT !.panicked = TRUE]
  ELSE
    LET full == Len(it.stack_list) - it.oldest_opened = it.opts.max_open
        it1 == IF full THEN [it EXCEPT !.oldest_opened = @ + 1] ELSE it
        rd == fs_read_dir(fs, dent.path)
        list == Opened(it.depth, rd.ok, rd.rd,
                       IF rd.ok THEN None
                       ELSE Some(Err(Error_from_path(it.depth, dent.path))))
        list1 == IF it.opts.sorter THEN Closed(sort_by(DirList_collect(fs, list)))
                 ELSE list
    IN [it1 EXCEPT !.stack_list = Append(@, list1),
                   !.stack_path = IF it.opts.follow_links THEN Append(@, dent.path) ELSE @]

\* push broken: the error of read_dir is dropped.
push_drops_open_error(fs, it, dent) ==
  IF Len(it.stack_list) < it.oldest_opened THEN [it EXCEPT !.panicked = TRUE]
  ELSE
    LET full == Len(it.stack_list) - it.oldest_opened = it.opts.max_open
        it1 == IF full
               THEN [it EXCEPT
                       !.stack_list[it.oldest_opened + 1] = DirList_close(fs, @),
                       !.oldest_opened = @ + 1]
               ELSE it
        rd == fs_read_dir(fs, dent.path)
        list == Opened(it.depth, rd.ok, rd.rd, None)
        list1 == IF it.opts.sorter THEN Closed(sort_by(DirList_collect(fs, list)))
                 ELSE list
    IN [it1 EXCEPT !.stack_list = Append(@, list1),
                   !.stack_path = IF it.opts.follow_links THEN Append(@, dent.path) ELSE @]

\* IntoIter::push.  checked_sub(..).unwrap() panics when oldest_opened exceeds
\* the length of the stack.
push(fs, it, dent) ==
  IF Len(it.stack_list) < it.oldest_opened THEN [it EXCEPT !.panicked = TRUE]
  ELSE
    LET full == Len(it.stack_list) - it.oldest_opened = it.opts.max_open
        it1 == IF full
               THEN [it EXCEPT
                       !.stack_list[it.oldest_opened + 1] = DirList_close(fs, @),
                       !.oldest_opened = @ + 1]
               ELSE it
        rd == fs_read_dir(fs, dent.path)
        list == Opened(it.depth, rd.ok, rd.rd,
                       IF rd.ok THEN None
                       ELSE Some(Err(Error_from_path(it.depth, dent.path))))
        list1 == IF it.opts.sorter THEN Closed(sort_by(DirList_collect(fs, list)))
                 ELSE list
    IN [it1 EXCEPT !.stack_list = Append(@, list1),
                   !.stack_path = IF it.opts.follow_links THEN Append(@, dent.path) ELSE @]

\* IntoIter::check_loop: the ancestors from the nearest to the root.
RECURSIVE check_loop_from(_, _, _, _)
\* check_loop_from broken: the loop is reported on the root's path.
check_loop_from_root(fs, it, child, i) ==
  IF i = 0 THEN [ok |-> TRUE, err |-> NoErr]
  ELSE LET ancestor == it.stack_path[i]
           same == is_same_file(fs, ancestor, child)
       IN IF ~same.ok THEN [ok |-> FALSE, err |-> Error_from_io(it.depth)]
          ELSE IF same.same
          THEN [ok |-> FALSE, err |-> Error_loop(it.depth, it.stack_path[1], child)]
          ELSE check_loop_from(fs, it, child, i - 1)

check_loop_from(fs, it, child, i) ==
  IF i = 0 THEN [ok |-> TRUE, err |-> NoErr]
  ELSE LET ancestor == it.stack_path[i]
           same == is_same_file(fs, ancestor, child)
       IN IF ~same.ok THEN [ok |-> FALSE, err |-> Error_from_io(it.depth)]
          ELSE IF same.same
          THEN [ok |-> FALSE, err |-> Error_loop(it.depth, ancestor, child)]
          ELSE check_loop_from(fs, it, child, i - 1)

\* check_loop broken: the nearest directory above is not compared.
check_loop_skips_nearest(fs, it, child) ==
  check_loop_from(fs, it, child, Len(it.stack_path) - 1)

check_loop(fs, it, child) == check_loop_from(fs, it, child, Len(it.stack_path))

\* follow broken: the record keeps the file type of the link.
follow_keeps_type(fs, it, dent) ==
  LET r == from_link(fs, it.depth, dent.path) IN
  IF ~r.ok THEN r ELSE Ok([r.ent EXCEPT !.ty = "symlink"])

\* IntoIter::follow
follow(fs, it, dent) ==
  LET r == from_link(fs, it.depth, dent.path) IN
  IF ~r.ok THEN r
  ELSE IF r.ent.ty = "dir"
  THEN LET c == check_loop(fs, it, r.ent.path) IN
       IF c.ok THEN r ELSE Err(c.err)
  ELSE r

\* same-file-system mode broken: every directory is descended into.
descends_into_any(fs, it, dent) == TRUE

\* Same-file-system mode, which lib.rs does not have: the device of the root
\* is recorded when the walk is seeded, and a directory below the root is
\* descended into only when it lies on that device.
descends_into(fs, it, dent) ==
  \/ ~it.opts.same_file_system
  \/ dent.depth = 0
  \/ fs.dev[fs_metadata(fs, dent.path)] = fs.dev[fs_metadata(fs, RootPath)]

\* handle_followed broken: a symlink in the root directory is opened like a
\* directory.
handle_followed_enters_top_links(fs, it, dent) ==
  LET isdir == dent.ty = "dir" \/ (dent.ty = "symlink" /\ dent.depth = 1)
      it1 == IF isdir THEN push(fs, it, dent) ELSE it
  IN IF it1.panicked THEN [it |-> it1, ret |-> None]
     ELSE IF isdir /\ it.opts.contents_first
     THEN [it |-> [it1 EXCEPT !.deferred_dirs = Append(@, dent)], ret |-> None]
     ELSE [it |-> it1, ret |-> IF skippable(it1) THEN None ELSE Some(Ok(dent))]

\* handle_followed broken: every directory deferred, whatever contents_first is.
handle_followed_always_defers(fs, it, dent) ==
  LET it1 == IF dent.ty = "dir" THEN push(fs, it, dent) ELSE it IN
  IF it1.panicked THEN [it |-> it1, ret |-> None]
  ELSE IF dent.ty = "dir"
  THEN [it |-> [it1 EXCEPT !.deferred_dirs = Append(@, dent)], ret |-> None]
  ELSE [it |-> it1, ret |-> IF skippable(it1) THEN None ELSE Some(Ok(dent))]

\* IntoIter::handle_entry, after the symlink has been followed.  A directory
\* is opened unless same-file-system mode refuses it.
handle_followed(fs, it, dent) ==
  LET it1 == IF dent.ty = "dir" /\ descends_into(fs, it, dent)
             THEN push(fs, it, dent) ELSE it IN
  IF it1.panicked THEN [it |-> it1, ret |-> None]
  ELSE IF dent.ty = "dir" /\ it.opts.contents_first
  THEN [it |-> [it1 EXCEPT !.deferred_dirs = Append(@, dent)], ret |-> None]
  ELSE [it |-> it1, ret |-> IF skippable(it1) THEN None ELSE Some(Ok(dent))]

\* handle_entry broken: an error of follow gives up the directory being read.
handle_entry_error_aborts(fs, it, dent) ==
  IF it.opts.follow_links /\ dent.ty = "symlink"
  THEN LET r == follow(fs, it, dent) IN
       IF ~r.ok THEN [it |-> pop(it), ret |-> Some(r)]
       ELSE handle_followed(fs, it, r.ent)
  ELSE handle_followed(fs, it, dent)

\* IntoIter::handle_entry
handle_entry(fs, it, dent) ==
  IF it.opts.follow_links /\ dent.ty = "symlink"
  THEN LET r == follow(fs, it, dent) IN
       IF ~r.ok THEN [it |-> it, ret |-> Some(r)]
       ELSE handle_followed(fs, it, r.ent)
  ELSE handle_followed(fs, it, dent)

\* IntoIter::get_deferred_dir
get_deferred_dir(it) ==
  IF it.opts.contents_first /\ it.depth < Len(it.deferred_dirs)
  THEN LET it1 == [it EXCEPT !.deferred_dirs = Front(@)] IN
       [it |-> it1,
        ret |-> IF ~skippable(it1) THEN Some(Ok(Last(it.deferred_dirs))) ELSE None]
  ELSE [it |-> it, ret |-> None]

\* next_tail broken: a deferred record that is not the last one is dropped,
\* and the call returns None.
next_tail_drops_stale(it) ==
  IF it.opts.contents_first /\ Len(it.deferred_dirs) > 1
  THEN [it |-> [it EXCEPT !.depth = 0, !.deferred_dirs = Front(@)], ret |-> None]
  ELSE IF it.opts.contents_first
  THEN get_deferred_dir([it EXCEPT !.depth = Len(it.stack_list)])
  ELSE [it |-> it, ret |-> None]

\* next_tail broken: the deferred directories left where they are.
next_tail_forgets(it) == [it |-> it, ret |-> None]

\* The part of IntoIter::next after its while loop.
next_tail(it) ==
  IF it.opts.contents_first
  THEN get_deferred_dir([it EXCEPT !.depth = Len(it.stack_list)])
  ELSE [it |-> it, ret |-> None]

\* The while loop of IntoIter::next.
RECURSIVE next_loop(_, _)
next_loop(fs, it) ==
  IF it.panicked THEN [it |-> it, ret |-> None]
  ELSE IF it.stack_list = <<>> THEN next_tail(it)
  ELSE
    LET d == get_deferred_dir([it EXCEPT !.depth = Len(it.stack_list)]) IN
    IF d.ret.some THEN d
    ELSE IF d.it.depth > d.it.opts.max_depth THEN next_loop(fs, pop(d.it))
    ELSE
      LET top == Len(d.it.stack_list)
          n == DirList_next(fs, d.it.stack_list[top])
          it2 == [d.it EXCEPT !.stack_list[top] = n.list]
      IN IF ~n.ret.some THEN next_loop(fs, pop(it2))
         ELSE IF ~n.ret.val.ok THEN [it |-> it2, ret |-> n.ret]
         ELSE LET h == handle_entry(fs, it2, n.ret.val.ent) IN
              IF h.ret.some THEN h ELSE next_loop(fs, h.it)

\* <IntoIter as Iterator>::next: the iterator after the call, and what it
\* returned (None also when the call panicked).
IntoIter_next(fs, it) ==
  IF it.start # <<>> THEN
    LET it0 == [it EXCEPT !.start = <<>>]
        r == from_link(fs, 0, Head(it.start))
    IN IF ~r.ok THEN [it |-> it0, ret |-> Some(r)]
       ELSE LET h == handle_entry(fs, it0, r.ent) IN
            IF h.ret.some THEN h ELSE next_loop(fs, h.it)
  ELSE next_loop(fs, it)

(***************************************************************************)
(* FilterEntry.                                                            *)
(***************************************************************************)
\* The predicate given to filter_entry: by file name, false on the names in
\* rejected (as is_hidden in the documentation's example).
predicate(rejected, dent) == file_name(dent) \notin rejected

\* <FilterEntry as Iterator>::next: the loop, and one turn of it on the item r
\* that self.it.next() returned.  asked lists the entries the predicate was
\* called on, in order.
RECURSIVE FilterEntry_loop(_, _, _, _)
RECURSIVE FilterEntry_turn(_, _, _, _)
\* FilterEntry_turn broken: skip_current_dir is called on an error too.
FilterEntry_turn_skips_on_error(fs, rejected, asked, r) ==
  IF r.it.panicked \/ ~r.ret.some
  THEN [it |-> r.it, ret |-> r.ret, asked |-> asked]
  ELSE IF ~r.ret.val.ok
  THEN [it |-> skip_current_dir(r.it), ret |-> r.ret, asked |-> asked]
  ELSE IF ~predicate(rejected, r.ret.val.ent)
  THEN FilterEntry_loop(fs,
         IF r.ret.val.ent.ty = "dir" THEN skip_current_dir(r.it) ELSE r.it,
         rejected, Append(asked, r.ret.val.ent))
  ELSE [it |-> r.it, ret |-> r.ret, asked |-> Append(asked, r.ret.val.ent)]

FilterEntry_turn(fs, rejected, asked, r) ==
  IF r.it.panicked \/ ~r.ret.some \/ ~r.ret.val.ok
  THEN [it |-> r.it, ret |-> r.ret, asked |-> asked]
  ELSE IF ~predicate(rejected, r.ret.val.ent)
  THEN FilterEntry_loop(fs,
         IF r.ret.val.ent.ty = "dir" THEN skip_current_dir(r.it) ELSE r.it,
         rejected, Append(asked, r.ret.val.ent))
  ELSE [it |-> r.it, ret |-> r.ret, asked |-> Append(asked, r.ret.val.ent)]

FilterEntry_loop(fs, it, rejected, asked) ==
  FilterEntry_turn(fs, rejected, asked, IntoIter_next(fs, it))

FilterEntry_next(fs, it, rejected) == FilterEntry_loop(fs, it, rejected, <<>>)

(***************************************************************************)
(* The file systems walked.                                                *)
(***************************************************************************)
FnOf(s) == [i \in 0 .. (Len(s) - 1) |-> s[i + 1]]

MkFs(parent, kind, target, openErr) ==
  [n |-> Len(parent), parent |-> FnOf(parent), kind |-> FnOf(kind),
   target |-> FnOf(target), openErr |-> openErr, order |-> "desc",
   dev |-> [i \in 0 .. (Len(parent) - 1) |-> 0], entryErr |-> {}]

\* The same tree on a platform that lists every directory in the other order.
Relisted(f) == [f EXCEPT !.order = IF @ = "asc" THEN "desc" ELSE "asc"]

\* Every tree of n nodes made of directories and files: a node's parent has a
\* smaller number and is a directory.
GenTrees(n) ==
  { [n |-> n,
     parent |-> [i \in 0 .. (n - 1) |-> IF i = 0 THEN 0 ELSE pk[1][i]],
     kind |-> pk[2],
     target |-> [i \in 0 .. (n - 1) |-> -1],
     openErr |-> {},
     order |-> "desc",
     dev |-> [i \in 0 .. (n - 1) |-> 0],
     entryErr |-> {}] :
    pk \in { qk \in [1 .. (n - 1) -> 0 .. (n - 1)] \X [0 .. (n - 1) -> {"dir", "file"}] :
             \A i \in 1 .. (n - 1) : qk[1][i] < i /\ qk[2][qk[1][i]] = "dir" } }

\* root/{b/g, a (unreadable)}
OpenErrTree ==
  MkFs(<<0, 0, 0, 1>>, <<"dir", "dir", "dir", "file">>, <<-1, -1, -1, -1>>, {2})

\* root/{a/x/f, b/g}, a listed before b.
DeepTree ==
  MkFs(<<0, 0, 0, 2, 3, 1>>, <<"dir", "dir", "dir", "dir", "file", "file">>,
       <<-1, -1, -1, -1, -1, -1>>, {})

\* A tree whose nodes lie on the given devices.
MkFsDev(parent, kind, target, openErr, dev) ==
  [MkFs(parent, kind, target, openErr) EXCEPT !.dev = FnOf(dev)]

\* root/{f1, e2, f3, e4, d5/{e6, f7}}: the entries e2, e4 and e6 give no file
\* type.
EntryErrTree ==
  [MkFs(<<0, 0, 0, 0, 0, 0, 5, 5>>,
        <<"dir", "file", "file", "file", "file", "dir", "file", "file">>,
        <<-1, -1, -1, -1, -1, -1, -1, -1>>, {}) EXCEPT !.entryErr = {2, 4, 6}]

\* The trees walked: every small tree of directories and files, and
\*   root/a/{f, loop -> a}, a link to its own parent directory;
\*   root/{a/f, link -> a}, a link to a sibling directory;
\*   root/{f, link -> f, dangling, self -> self};
\*   root/a/{up -> root, f}, a link to the root, two levels up;
\*   root/{a/f, b/g} with b unreadable: b is listed first, g is never seen.
FileSystems ==
  UNION {GenTrees(n) : n \in 1 .. MaxNodes}
    \cup {MkFs(<<0, 0, 1, 1>>, <<"dir", "dir", "file", "symlink">>, <<-1, -1, -1, 1>>, {}),
          MkFs(<<0, 0, 1, 0>>, <<"dir", "dir", "file", "symlink">>, <<-1, -1, -1, 1>>, {}),
          MkFs(<<0, 0, 0, 0, 0>>, <<"dir", "file", "symlink", "symlink", "symlink">>,
               <<-1, -1, 1, -1, 4>>, {}),
          MkFs(<<0, 0, 1, 1>>, <<"dir", "dir", "symlink", "file">>, <<-1, -1, 0, -1>>, {})}
    \cup {OpenErrTree, DeepTree,
          MkFs(<<0, 0, 0, 1, 2>>, <<"dir", "dir", "dir", "file", "file">>,
               <<-1, -1, -1, -1, -1>>, {2})}

\* The options a chain of builder calls produces.
BuiltOptions ==
  { WalkDir_contents_first(WalkDir_sort_by(WalkDir_follow_links(
      WalkDir_max_open(
        IF a[1] THEN WalkDir_max_depth(WalkDir_min_depth(WalkDir_new, a[2]), a[3])
        ELSE WalkDir_min_depth(WalkDir_max_depth(WalkDir_new, a[3]), a[2]),
        a[4]), a[5]), a[6]), a[7]) :
    a \in BOOLEAN \X (0 .. DepthCap) \X ((0 .. DepthCap) \cup {UsizeMax}) \X (0 .. MaxOpenCap)
          \X BOOLEAN \X BOOLEAN \X BOOLEAN }

(***************************************************************************)
(* same_file::is_same_file on Windows, one system call at a time.  A call  *)
(* is a record                                                             *)
(*   pc       the statement to run next, "idle" before the call and        *)
(*            "done" after it has returned                                 *)
(*   p1, p2   the two paths                                                *)
(*   files    the BY_HANDLE_FILE_INFORMATION of the file each path names:  *)
(*            <<dwVolumeSerialNumber, nFileIndexHigh, nFileIndexLow,       *)
(*            nFileSizeHigh, nFileSizeLow>>; no entry for a path that      *)
(*            names nothing                                                *)
(*   fails    the handles on which GetFileInformationByHandle fails        *)
(*   open     the handles h1, h2 that are open                             *)
(*   i1, i2   the file information read through h1 and h2                  *)
(*   ret      what the call returned, an io::Result<bool>                  *)
(*   readAt   for each handle, the handles open when its information was   *)
(*            read; cmpAt, the handles open when the tuples were compared  *)
(***************************************************************************)
SfIdle ==
  [pc |-> "idle", p1 |-> "", p2 |-> "", files |-> <<>>, fails |-> {}, open |-> {},
   i1 |-> <<>>, i2 |-> <<>>, ret |-> [done |-> FALSE, ok |-> FALSE, same |-> FALSE],
   readAt |-> <<>>, cmpAt |-> {-1}]

\* try! returning the error: the handles opened so far are dropped, which
\* closes them.
sf_fail(c) ==
  [c EXCEPT !.pc = "done", !.ret = [done |-> TRUE, ok |-> FALSE, same |-> FALSE],
            !.open = {}]

\* is_same_file broken: h1 is closed as soon as its information is read.
sf_info1_then_close(c) ==
  IF 1 \in c.fails THEN sf_fail(c)
  ELSE [c EXCEPT !.pc = "info2", !.i1 = c.files[c.p1], !.open = @ \ {1},
                 !.readAt = [h \in {1} |-> c.open]]

\* let i1 = try!(file_info(&h1));
sf_info1(c) ==
  IF 1 \in c.fails THEN sf_fail(c)
  ELSE [c EXCEPT !.pc = "info2", !.i1 = c.files[c.p1],
                 !.readAt = [h \in {1} |-> c.open]]

\* The statements of is_same_file, in order.
sf_step(c) ==
  CASE c.pc = "open1" ->   \* let h1 = try!(open_read_attr(&p1));
         IF c.p1 \notin DOMAIN c.files THEN sf_fail(c)
         ELSE [c EXCEPT !.pc = "open2", !.open = @ \cup {1}]
    [] c.pc = "open2" ->   \* let h2 = try!(open_read_attr(&p2));
         IF c.p2 \notin DOMAIN c.files THEN sf_fail(c)
         ELSE [c EXCEPT !.pc = "info1", !.open = @ \cup {2}]
    [] c.pc = "info1" -> sf_info1(c)
    [] c.pc = "info2" ->   \* let i2 = try!(file_info(&h2));
         IF 2 \in c.fails THEN sf_fail(c)
         ELSE [c EXCEPT !.pc = "compare", !.i2 = c.files[c.p2],
                        !.readAt = [h \in {1, 2} |-> IF h = 2 THEN c.open ELSE c.readAt[1]]]
    [] c.pc = "compare" -> \* k1, k2 and Ok(k1 == k2), built before the drops
         LET k1 == <<c.i1[1], c.i1[2], c.i1[3], c.i1[4], c.i1[5]>>
             k2 == <<c.i2[1], c.i2[2], c.i2[3], c.i2[4], c.i2[5]>>
         IN [c EXCEPT !.pc = "drop", !.cmpAt = c.open,
                      !.ret = [done |-> TRUE, ok |-> TRUE, same |-> (k1 = k2)]]
    [] c.pc = "drop" ->    \* the end of the function: h2 and h1 are dropped
         [c EXCEPT !.pc = "done", !.open = {}]

(***************************************************************************)
(* cursor::Cursor.  A cursor is a record                                   *)
(*   stack      the DirCursors of the directories being read               *)
(*   root       set by new                                                 *)
(*   current    the working path buffer                                    *)
(*   file_type  the type of the entry last yielded, "none" for None        *)
(*   abs        whether the root path has a parent (the root was given as  *)
(*              more than one relative component); the parent is then a    *)
(*              directory that lists the root, and its path is <<>>        *)
(* A DirCursor is the names left to read of an open directory, or the      *)
(* error of Dir::open until it is taken.                                   *)
(***************************************************************************)
\* The entries `.` and `..` that readdir returns.
DotNames == <<-1, -2>>

\* os::stat, which follows symlinks.
os_stat(f, abs, pb) ==
  IF pb = <<>> THEN [ok |-> abs, ty |-> IF abs THEN "dir" ELSE "none"]
  ELSE LET node == resolve(f, Last(pb), f.n) IN
       IF node = -1 THEN [ok |-> FALSE, ty |-> "none"]
       ELSE [ok |-> TRUE, ty |-> f.kind[node]]

\* os::Dir::open, as Cursor::push keeps it: DirCursor(res.map_err(Some)).
\* readdir returns `.` and `..` too, before the other names or after them.
Dir_open(f, abs, pb) ==
  IF pb = <<>>
  THEN IF abs THEN [ok |-> TRUE, rest |-> DotNames \o <<0>>, err |-> FALSE]
       ELSE [ok |-> FALSE, rest |-> <<>>, err |-> TRUE]
  ELSE LET node == resolve(f, Last(pb), f.n) IN
       IF node = -1 \/ f.kind[node] # "dir" \/ node \in f.openErr
       THEN [ok |-> FALSE, rest |-> <<>>, err |-> TRUE]
       ELSE [ok |-> TRUE, err |-> FALSE,
             rest |-> IF f.order = "asc" THEN ListingOf(f, node) \o DotNames
                      ELSE DotNames \o ListingOf(f, node)]

\* DirCursor::read: the taken error, or the next raw entry, or None.
DirCursor_read(dc) ==
  IF ~dc.ok
  THEN IF dc.err THEN [dc |-> [dc EXCEPT !.err = FALSE], tag |-> "err", name |-> 0]
       ELSE [dc |-> dc, tag |-> "none", name |-> 0]
  ELSE IF dc.rest = <<>> THEN [dc |-> dc, tag |-> "none", name |-> 0]
  ELSE [dc |-> [dc EXCEPT !.rest = Tail(@)], tag |-> "entry", name |-> Head(dc.rest)]

\* Cursor::new
Cursor_new(abs) ==
  [stack |-> <<>>, root |-> TRUE, current |-> RootPath, file_type |-> "none", abs |-> abs]

\* io::Result<Option<CursorEntry>>: Ok(None) ("none"), Err ("err"), or an
\* entry, which gives the cursor's path and file type.
ReadResult(tag, c) ==
  [tag |-> tag, path |-> IF tag = "entry" THEN c.current ELSE NoPath,
   ty |-> IF tag = "entry" THEN c.file_type ELSE "none"]

\* PathBuf::pop
PathBuf_pop(pb) == IF pb = <<>> THEN pb ELSE SubSeq(pb, 1, Len(pb) - 1)

\* Cursor::push
Cursor_push(f, c) == [c EXCEPT !.stack = Append(@, Dir_open(f, c.abs, c.current))]

\* The loop of Cursor::read.
RECURSIVE Cursor_read_loop(_, _)
Cursor_read_loop(f, c) ==
  IF c.stack = <<>> THEN [c |-> c, ret |-> ReadResult("none", c)]
  ELSE
    LET r == DirCursor_read(Last(c.stack))
        c1 == [c EXCEPT !.stack[Len(c.stack)] = r.dc]
    IN IF r.tag = "none"
       THEN LET popped == SubSeq(c.stack, 1, Len(c.stack) - 1) IN
            Cursor_read_loop(f, [c EXCEPT !.stack = popped,
                                          !.current = IF popped # <<>> THEN PathBuf_pop(@) ELSE @])
       ELSE IF r.tag = "err" THEN [c |-> c1, ret |-> ReadResult("err", c1)]
       ELSE IF r.name \in {DotNames[1], DotNames[2]} THEN Cursor_read_loop(f, c1)
       ELSE LET c2 == [c1 EXCEPT !.current = Append(@, r.name), !.file_type = f.kind[r.name]]
                c3 == IF f.kind[r.name] = "dir" THEN Cursor_push(f, c2) ELSE c2
            IN [c |-> c3, ret |-> ReadResult("entry", c3)]

\* Cursor::read
Cursor_read(f, c) ==
  IF c.file_type # "none"
  THEN Cursor_read_loop(f, [c EXCEPT !.file_type = "none",
                                      !.current = IF c.file_type # "dir" THEN PathBuf_pop(@) ELSE @])
  ELSE LET st == os_stat(f, c.abs, c.current) IN
       IF ~st.ok THEN [c |-> c, ret |-> ReadResult("err", c)]
       ELSE LET c1 == IF st.ty = "dir" THEN Cursor_push(f, c) ELSE c
                c2 == [c1 EXCEPT !.file_type = st.ty]
            IN [c |-> c2, ret |-> ReadResult("entry", c2)]

(***************************************************************************)
(* os::linux::DirEntryCursor.  The buffer holds the records getdents64     *)
(* wrote, each with its name and its length in bytes (d_reclen); raw is    *)
(* offset 0, cursor an offset into the buffer, len the bytes written.      *)
(***************************************************************************)
\* DirEntryCursor::with_capacity
DirEntryCursor_new == [buf |-> <<>>, len |-> 0, cursor |-> 0, advanced |-> FALSE]

\* The offset at which record i of the buffer starts.
RECURSIVE OffsetOf(_, _)
OffsetOf(buf, i) == IF i = 1 THEN 0 ELSE OffsetOf(buf, i - 1) + buf[i - 1].reclen

\* DirEntryCursor::clear
DirEntryCursor_clear(d) == [d EXCEPT !.cursor = 0, !.len = 0, !.advanced = FALSE]

\* getdents: clears the cursor, lets the kernel write the records and keeps
\* the number of bytes written.
getdents(d, records) ==
  [DirEntryCursor_clear(d) EXCEPT !.buf = records,
                                  !.len = OffsetOf(records, Len(records) + 1)]

\* DirEntryCursor::is_done
DirEntryCursor_is_done(d) == d.cursor >= d.len

\* DirEntryCursor::current_raw: the record the cursor points at.
DirEntryCursor_current_raw(d) ==
  d.buf[CHOOSE i \in 1 .. Len(d.buf) : OffsetOf(d.buf, i) = d.cursor]

\* DirEntryCursor::advance: the cursor afterwards, and the boolean returned.
DirEntryCursor_advance(d) ==
  IF DirEntryCursor_is_done(d) THEN [d |-> d, more |-> FALSE]
  ELSE IF ~d.advanced THEN [d |-> [d EXCEPT !.advanced = TRUE], more |-> TRUE]
  ELSE LET d1 == [d EXCEPT !.cursor = @ + DirEntryCursor_current_raw(d).reclen]
       IN [d |-> d1, more |-> ~DirEntryCursor_is_done(d1)]

\* DirEntryCursor::read: advance, then current, which gives the name of the
\* record under the cursor; name 0 stands for None.
DirEntryCursor_read(d) ==
  LET a == DirEntryCursor_advance(d) IN
  IF ~a.more THEN [d |-> a.d, name |-> 0]
  ELSE [d |-> a.d, name |-> DirEntryCursor_current_raw(a.d).name]

\* DirEntryCursor::rewind
DirEntryCursor_rewind(d) == [d EXCEPT !.cursor = 0]

\* The reads made of a buffer: how many before the last rewind, whether
\* rewind was called, and what the reads since returned.
NoReads == [before |-> 0, rewound |-> FALSE, after |-> <<>>]

(***************************************************************************)
(* The state machine: one iterator over one file system, driven by calls   *)
(* of next and skip_current_dir, or through FilterEntry.                   *)
(***************************************************************************)
VARIABLES
  fs,        \* the file system, unchanged during the walk
  wd,        \* the options of the builder WalkDir
  it,        \* the IntoIter
  rejected,  \* the names the filter_entry predicate is false on
  yielded,   \* the items returned so far by next, in order
  skipped,   \* whether skip_current_dir has been called
  asked,     \* the entries the filter_entry predicate was called on, in order
  lastOp,    \* the last call: "new", "next", "skip", "filter_next" or the
             \* name of a builder method
  lastRet,   \* what the last call of next returned
  sf,        \* a call of the Windows is_same_file, step by step
  cur,       \* a cursor::Cursor
  reads,     \* what the calls of Cursor::read returned, in order
  dec,       \* an os::linux::DirEntryCursor
  decLog     \* the reads of dec since the buffer was filled

\* The variables of the walk, and the others.
walkvars == <<fs, wd, it, rejected, yielded, skipped, asked, lastOp, lastRet>>

others == <<sf, cur, reads, dec, decLog>>

vars == <<walkvars, others>>

\* No call of the other components is under way.
OthersIdle ==
  /\ sf = SfIdle
  /\ cur = Cursor_new(TRUE)
  /\ reads = <<>>
  /\ dec = DirEntryCursor_new
  /\ decLog = NoReads

InitWith(rej) ==
  /\ fs \in FileSystems
  /\ wd \in BuiltOptions
  /\ it = into_iter(wd)
  /\ rejected \in rej
  /\ yielded = <<>>
  /\ skipped = FALSE
  /\ asked = <<>>
  /\ lastOp = "new"
  /\ lastRet = None
  /\ OthersIdle

Init == InitWith({{}})

Returned(r) ==
  /\ it' = r.it
  /\ lastRet' = r.ret
  /\ yielded' = IF r.ret.some THEN Append(yielded, r.ret.val) ELSE yielded

FilterReturned(r) == Returned(r) /\ asked' = asked \o r.asked

\* A call of IntoIter::next.
CallNext ==
  /\ ~it.panicked
  /\ Returned(IntoIter_next(fs, it))
  /\ lastOp' = "next"
  /\ UNCHANGED <<fs, wd, rejected, skipped, asked, others>>

\* A call of IntoIter::skip_current_dir.
CallSkip ==
  /\ ~it.panicked
  /\ it' = skip_current_dir(it)
  /\ lastOp' = "skip"
  /\ skipped' = TRUE
  /\ UNCHANGED <<fs, wd, rejected, yielded, asked, lastRet, others>>

\* A call of FilterEntry::next.
CallFilterNext ==
  /\ ~it.panicked
  /\ FilterReturned(FilterEntry_next(fs, it, rejected))
  /\ lastOp' = "filter_next"
  /\ UNCHANGED <<fs, wd, rejected, skipped, others>>

\* A call of skip_current_dir right after next has yielded a directory
\* record, once in a walk.
CallSkipDir ==
  /\ lastOp = "next" /\ ~skipped
  /\ lastRet.some /\ lastRet.val.ok /\ lastRet.val.ent.ty = "dir"
  /\ CallSkip

Next == CallNext \/ CallSkip

\* Any interleaving of next and skip_current_dir.
Spec == Init /\ [][Next]_vars

\* Repeated next, as a for loop over the iterator.
SpecWalk == Init /\ [][CallNext]_vars

SpecSkipDir == Init /\ [][CallNext \/ CallSkipDir]_vars

\* Repeated next of the FilterEntry adapter, with a predicate false on one
\* file name.
InitFilter == InitWith({{name} : name \in 0 .. (MaxNodes - 1)})

SpecFilter == InitFilter /\ [][CallFilterNext]_vars

\* Repeated next from a root path that is a symbolic link.
InitRootLink ==
  /\ fs \in {\* alink -> bar/{a, b}, walked from alink: bar lies beside the
             \* link, outside the walk
             MkFs(<<0, -1, 1, 1>>, <<"symlink", "dir", "file", "file">>,
                  <<1, -1, -1, -1>>, {}),
             \* alink -> bar/{a/f, b}
             MkFs(<<0, -1, 1, 1, 2>>, <<"symlink", "dir", "dir", "file", "file">>,
                  <<1, -1, -1, -1, -1>>, {}),
             \* alink -> a1, a file
             MkFs(<<0, -1>>, <<"symlink", "file">>, <<1, -1>>, {})}
  /\ wd \in BuiltOptions
  /\ it = into_iter(wd)
  /\ rejected = {}
  /\ yielded = <<>>
  /\ skipped = FALSE
  /\ asked = <<>>
  /\ lastOp = "new"
  /\ lastRet = None
  /\ OthersIdle

SpecRootLink == InitRootLink /\ [][CallNext]_vars

\* Next and skip_current_dir over trees that span two devices, with
\* same_file_system on or off.
InitDevices ==
  /\ fs \in {\* root/{a/{m/f, g}, h} with another file system mounted on m
             MkFsDev(<<0, 0, 1, 2, 1, 0>>,
                     <<"dir", "dir", "dir", "file", "file", "file">>,
                     <<-1, -1, -1, -1, -1, -1>>, {}, <<0, 0, 1, 1, 0, 0>>),
             \* root/a/alink -> sys, a directory of another file system that
             \* lies outside the walk and holds a directory that cannot be read
             MkFsDev(<<0, 0, 1, -1, 3>>, <<"dir", "dir", "symlink", "dir", "dir">>,
                     <<-1, -1, 3, -1, -1>>, {4}, <<0, 0, 0, 1, 1>>),
             \* root/{m/x/f, d} with another file system mounted on m: all
             \* below m is foreign
             MkFsDev(<<0, 0, 1, 2, 0>>, <<"dir", "dir", "dir", "file", "dir">>,
                     <<-1, -1, -1, -1, -1>>, {}, <<0, 1, 1, 1, 0>>)}
  /\ \E opts \in BuiltOptions, yes \in BOOLEAN : wd = WalkDir_same_file_system(opts, yes)
  /\ it = into_iter(wd)
  /\ rejected = {}
  /\ yielded = <<>>
  /\ skipped = FALSE
  /\ asked = <<>>
  /\ lastOp = "new"
  /\ lastRet = None
  /\ OthersIdle

SpecDevices == InitDevices /\ [][Next]_vars

\* Repeated next over trees with entries that cannot be read.
InitEntryErr ==
  /\ fs \in {EntryErrTree, Relisted(EntryErrTree),
             \* root/{e1, e2, d3/f4}: errors only, beside a directory
             [MkFs(<<0, 0, 0, 0, 3>>, <<"dir", "file", "file", "dir", "file">>,
                   <<-1, -1, -1, -1, -1>>, {}) EXCEPT !.entryErr = {1, 2}]}
  /\ wd \in BuiltOptions
  /\ it = into_iter(wd)
  /\ rejected = {}
  /\ yielded = <<>>
  /\ skipped = FALSE
  /\ asked = <<>>
  /\ lastOp = "new"
  /\ lastRet = None
  /\ OthersIdle

SpecEntryErr == InitEntryErr /\ [][CallNext]_vars

\* A call of a method of the builder: the iterator is not made yet.
Built(opts, op) ==
  /\ wd' = opts
  /\ lastOp' = op
  /\ UNCHANGED <<fs, it, rejected, yielded, skipped, asked, lastRet, others>>

NextBuilder ==
  \/ \E depth \in {0, DepthCap - 1, DepthCap + 1} :
       Built(WalkDir_min_depth(wd, depth), "min_depth")
  \/ \E depth \in {0, DepthCap, UsizeMax} :
       Built(WalkDir_max_depth(wd, depth), "max_depth")
  \/ \E n \in {0, UsizeMax} \cup (2 .. (MaxOpenCap + 1)) :
       Built(WalkDir_max_open(wd, n), "max_open")
  \/ \E yes \in BOOLEAN : Built(WalkDir_follow_links(wd, yes), "follow_links")
  \/ Built(WalkDir_sort_by(wd, TRUE), "sort_by")
  \/ \E yes \in BOOLEAN : Built(WalkDir_contents_first(wd, yes), "contents_first")

\* WalkDir::new, before into_iter.
InitBuilder ==
  /\ fs = MkFs(<<0>>, <<"dir">>, <<-1>>, {})
  /\ wd = WalkDir_new
  /\ it = into_iter(WalkDir_new)
  /\ rejected = {}
  /\ yielded = <<>>
  /\ skipped = FALSE
  /\ asked = <<>>
  /\ lastOp = "new"
  /\ lastRet = None
  /\ OthersIdle

\* Any chain of calls of the builder's methods.
SpecBuilder == InitBuilder /\ [][NextBuilder]_vars

\* The walk is not run.
WalkIdleOn(f) ==
  /\ fs = f
  /\ wd = WalkDir_new
  /\ it = into_iter(WalkDir_new)
  /\ rejected = {}
  /\ yielded = <<>>
  /\ skipped = FALSE
  /\ asked = <<>>
  /\ lastOp = "new"
  /\ lastRet = None

\* A call of the Windows is_same_file on two of the paths "a", "b" and "m":
\* "a" names one file, "b" the same file or one that differs from it in one
\* field, "m" nothing.
InitSameFile ==
  /\ WalkIdleOn(MkFs(<<0>>, <<"dir">>, <<-1>>, {}))
  /\ cur = Cursor_new(TRUE)
  /\ reads = <<>>
  /\ dec = DirEntryCursor_new
  /\ decLog = NoReads
  /\ \E p1 \in {"a", "b", "m"}, p2 \in {"a", "b", "m"}, fails \in SUBSET {1, 2},
        ib \in {<<1, 0, 7, 0, 5>>, <<2, 0, 7, 0, 5>>, <<1, 1, 7, 0, 5>>,
                <<1, 0, 8, 0, 5>>, <<1, 0, 7, 1, 5>>, <<1, 0, 7, 0, 6>>} :
       sf = [SfIdle EXCEPT !.pc = "open1", !.p1 = p1, !.p2 = p2, !.fails = fails,
                           !.files = [p \in {"a", "b"} |->
                                        IF p = "a" THEN <<1, 0, 7, 0, 5>> ELSE ib]]

\* The next statement of is_same_file.
SfStep ==
  /\ sf.pc \notin {"idle", "done"}
  /\ sf' = sf_step(sf)
  /\ UNCHANGED <<walkvars, cur, reads, dec, decLog>>

SpecSameFile == InitSameFile /\ [][SfStep]_vars

\* The calls of Cursor::read that are followed.
MaxReads == 2 * MaxNodes + 2

\* A cursor on a tree, `.` and `..` listed first or last.
InitCursor ==
  /\ \E f \in FileSystems \cup {Relisted(DeepTree), Relisted(OpenErrTree)} : WalkIdleOn(f)
  /\ sf = SfIdle
  /\ \E abs \in BOOLEAN : cur = Cursor_new(abs)
  /\ reads = <<>>
  /\ dec = DirEntryCursor_new
  /\ decLog = NoReads

CallRead ==
  /\ Len(reads) < MaxReads
  /\ cur' = Cursor_read(fs, cur).c
  /\ reads' = Append(reads, Cursor_read(fs, cur).ret)
  /\ UNCHANGED <<walkvars, sf, dec, decLog>>

SpecCursor == InitCursor /\ [][CallRead]_vars

\* The reads followed after one getdents call.
MaxDirentReads == 2 * MaxNodes

InitDirents ==
  /\ WalkIdleOn(MkFs(<<0>>, <<"dir">>, <<-1>>, {}))
  /\ sf = SfIdle
  /\ cur = Cursor_new(TRUE)
  /\ reads = <<>>
  /\ dec = DirEntryCursor_new
  /\ decLog = NoReads

\* One getdents call writes fewer than MaxNodes records, named 1, 2, ..., of
\* 24 or 32 bytes each.
CallGetdents ==
  /\ \E lens \in UNION {[1 .. k -> {24, 32}] : k \in 0 .. (MaxNodes - 1)} :
       dec' = getdents(dec, [i \in 1 .. Len(lens) |-> [name |-> i, reclen |-> lens[i]]])
  /\ decLog' = NoReads
  /\ UNCHANGED <<walkvars, sf, cur, reads>>

CallDirentRead ==
  /\ Len(decLog.after) <= Len(dec.buf)
  /\ decLog.before + Len(decLog.after) < MaxDirentReads
  /\ dec' = DirEntryCursor_read(dec).d
  /\ decLog' = [decLog EXCEPT !.after = Append(@, DirEntryCursor_read(dec).name)]
  /\ UNCHANGED <<walkvars, sf, cur, reads>>

CallRewind ==
  /\ dec' = DirEntryCursor_rewind(dec)
  /\ decLog' = [before |-> decLog.before + Len(decLog.after), rewound |-> TRUE, after |-> <<>>]
  /\ UNCHANGED <<walkvars, sf, cur, reads>>

NextDirents == CallGetdents \/ CallDirentRead \/ CallRewind

SpecDirents == InitDirents /\ [][NextDirents]_vars

(***************************************************************************)
(* What the claims are stated in.                                          *)
(***************************************************************************)
IsPrefix(s, t) == Len(s) <= Len(t) /\ SubSeq(t, 1, Len(s)) = s

\* Iterator::collect on an IntoIter: every item next() returns until None.
RECURSIVE IntoIter_collect(_, _)
IntoIter_collect(f, i) ==
  LET r == IntoIter_next(f, i) IN
  IF r.it.panicked \/ ~r.ret.some THEN <<>>
  ELSE <<r.ret.val>> \o IntoIter_collect(f, r.it)

\* The last call was next, and it returned None.
WalkDone == lastOp = "next" /\ ~lastRet.some /\ ~it.panicked

Entries == {i \in 1 .. Len(yielded) : yielded[i].ok}

InWindow(d) == it.opts.min_depth <= d /\ d <= it.opts.max_depth

RECURSIVE NodePath(_, _)
NodePath(f, node) ==
  IF node = 0 THEN RootPath ELSE Append(NodePath(f, f.parent[node]), node)

NoSymlink == \A node \in NodesOf(fs) : fs.kind[node] # "symlink"

\* A tree read without I/O errors that holds no symlink.
PlainTree == fs.openErr = {} /\ fs.entryErr = {} /\ NoSymlink

\* The paths of the nodes whose depth lies in the window.
WindowPaths ==
  {q \in {NodePath(fs, node) : node \in NodesOf(fs)} : InWindow(Len(q) - 1)}

\* A listing that max_open made push close while it still had entries: with
\* max_open 1 and no sort_by, an entry of the root directory yielded after
\* an entry two levels down was read from memory.
ReadFromClosed ==
  /\ it.opts.max_open = 1 /\ ~it.opts.sorter
  /\ \E i, j \in Entries : i < j /\ yielded[i].ent.depth = 2 /\ yielded[j].ent.depth = 1

\* Path p lies beneath path q.
Beneath(p, q) == Len(p) > Len(q) /\ SubSeq(p, 1, Len(q)) = q

BeneathOrAt(p, q) == p = q \/ Beneath(p, q)

IsRootRecord(r) == r.ok /\ r.ent.path = RootPath /\ r.ent.depth = 0

RECURSIVE IsUnder(_, _, _)
IsUnder(f, c, d) ==
  IF c = 0 \/ f.parent[c] = -1 THEN FALSE
  ELSE f.parent[c] = d \/ IsUnder(f, f.parent[c], d)

\* The file system f with directory d emptied: what lay beneath d is gone
\* (a link to it dangles), and d is a directory that lists, with no entry.
EmptiedFs(f, d) ==
  LET gone == {c \in NodesOf(f) : IsUnder(f, c, d)} IN
  [f EXCEPT !.parent = [c \in NodesOf(f) |-> IF c \in gone THEN -1 ELSE f.parent[c]],
            !.target = [c \in NodesOf(f) |-> IF f.target[c] \in gone THEN -1 ELSE f.target[c]],
            !.openErr = @ \ {d}]

\* What follows the first occurrence of item r in sequence s.
AfterRecord(s, r) ==
  IF \E k \in 1 .. Len(s) : s[k] = r
  THEN LET k == CHOOSE k \in 1 .. Len(s) : s[k] = r /\ \A m \in 1 .. (k - 1) : s[m] # r
       IN SubSeq(s, k + 1, Len(s))
  ELSE <<NoResult>>

\* The number of times x occurs in s, for every x.
BagOf(s) == [x \in {s[i] : i \in 1 .. Len(s)} |-> Cardinality({i \in 1 .. Len(s) : s[i] = x})]

SelectOk(s) == SelectSeq(s, LAMBDA r : r.ok)

(***************************************************************************)
(* The claims.                                                             *)
(***************************************************************************)
\* C1: whatever max_open >= 1 is, repeated next() returns the same sequence
\* of items as with a max_open that never makes push close a listing.
C1_SameAsUnboundedMaxOpen ==
  LET ref == IntoIter_collect(fs, into_iter(WalkDir_max_open(it.opts, UsizeMax))) IN
  /\ ~it.panicked
  /\ IsPrefix(yielded, ref)
  /\ WalkDone => yielded = ref

C1_Witness == WalkDone /\ ReadFromClosed

\* C2: after every call of next or skip_current_dir the listings of the stack
\* that hold an open directory handle number at most max_open.
C2_OpenHandlesAtMostMaxOpen ==
  Cardinality({i \in 1 .. Len(it.stack_list) : HoldsHandle(it.stack_list[i])})
    <= it.opts.max_open

C2_Witness ==
  /\ it.oldest_opened > 0
  /\ Cardinality({i \in 1 .. Len(it.stack_list) : HoldsHandle(it.stack_list[i])})
       = it.opts.max_open
  /\ \E i \in 1 .. Len(it.stack_list) :
       it.stack_list[i].tag = "Closed" /\ it.stack_list[i].items # <<>>
  /\ ~it.opts.sorter

\* C3: on a tree without errors and symlinks, repeated next() yields every
\* node whose depth lies in [min_depth, max_depth] exactly once, and nothing
\* else, before it returns None.
C3_EveryNodeInWindowOnce ==
  PlainTree =>
    /\ \A i \in 1 .. Len(yielded) : yielded[i].ok /\ yielded[i].ent.path \in WindowPaths
    /\ \A i, j \in 1 .. Len(yielded) : i # j => yielded[i].ent.path # yielded[j].ent.path
    /\ WalkDone => {yielded[i].ent.path : i \in 1 .. Len(yielded)} = WindowPaths

C3_Witness ==
  /\ PlainTree /\ WalkDone
  /\ Len(yielded) >= 2
  /\ Cardinality(WindowPaths) < fs.n
  /\ it.opts.contents_first /\ it.opts.sorter /\ it.opts.max_open = 1

\* C4: a yielded entry has depth 0 and the root's path if it is the root;
\* otherwise its depth is one more than its parent directory's, and its path
\* is the parent directory's path joined with its own name, a name that
\* directory holds.
C4_DepthAndPathFromParent ==
  \A i \in Entries :
    LET e == yielded[i].ent IN
    /\ e.depth = Len(e.path) - 1
    /\ e.depth = 0 => e.path = RootPath
    /\ e.depth > 0 =>
         /\ Head(e.path) = Head(RootPath)
         /\ Last(e.path) \in ChildrenOf(fs, fs_metadata(fs, Front(e.path)))
         /\ \A j \in Entries :
              yielded[j].ent.path = Front(e.path) => e.depth = yielded[j].ent.depth + 1

C4_Witness ==
  /\ ReadFromClosed
  /\ \E i, j \in Entries :
       yielded[i].ent.depth = 2 /\ yielded[j].ent.path = Front(yielded[i].ent.path)

\* C5: no yielded entry has a depth below min_depth or above max_depth, and a
\* walk by next() alone still descends into the directories above the window:
\* it yields every node of a plain tree whose depth lies in the window.
C5_OnlyInsideWindow ==
  /\ \A i \in Entries : InWindow(yielded[i].ent.depth)
  /\ (PlainTree /\ WalkDone /\ ~skipped) =>
       WindowPaths \subseteq {yielded[i].ent.path : i \in Entries}

\* With contents_first off a directory's record comes before the records of
\* its descendants, and the records beneath a directory come before any later
\* sibling of it: what lies at or beneath one path is yielded in one run,
\* nothing else in between.
DepthFirstPreOrder ==
  /\ \A i, j \in Entries :
       (yielded[i].ent.ty = "dir" /\ Beneath(yielded[j].ent.path, yielded[i].ent.path))
         => i < j
  /\ \A i, j, k \in Entries :
       (i < k /\ k < j /\ Len(yielded[i].ent.path) > 1
          /\ BeneathOrAt(yielded[j].ent.path, SubSeq(yielded[i].ent.path, 1, 2)))
         => BeneathOrAt(yielded[k].ent.path, SubSeq(yielded[i].ent.path, 1, 2))

C7_ContentsBeforeDirs ==
  it.opts.contents_first =>
    /\ \A i, j \in Entries :
         (yielded[i].ent.ty = "dir" /\ Beneath(yielded[j].ent.path, yielded[i].ent.path))
           => j < i
    /\ (WalkDone /\ fs.kind[0] = "dir" /\ InWindow(0)) =>
         (yielded # <<>> /\ IsRootRecord(Last(yielded)))

\* C8: a walk with contents_first on yields the same entries, each as many
\* times, as the walk with contents_first off and the other options the same.
C8_SameEntriesEitherOrder ==
  LET other == IntoIter_collect(fs,
                 into_iter(WalkDir_contents_first(it.opts, ~it.opts.contents_first)))
  IN WalkDone => BagOf(SelectOk(yielded)) = BagOf(SelectOk(other))

C8_Witness ==
  /\ WalkDone /\ it.opts.contents_first /\ it.opts.follow_links
  /\ \E i, j \in Entries : i < j /\ Beneath(yielded[i].ent.path, yielded[j].ent.path)
  /\ \E i \in 1 .. Len(yielded) : ~yielded[i].ok

\* C9: after skip_current_dir, called right after next yielded the record of
\* a directory, next returns what it returns after that record in a walk of
\* the tree in which the directory is empty (on a tree without symlinks,
\* where the directory is reached by one path only).
C9_SkipLikeEmptyDir ==
  (lastOp = "skip" /\ NoSymlink) =>
    IntoIter_collect(fs, it)
      = AfterRecord(IntoIter_collect(EmptiedFs(fs, lastRet.val.ent.ino), into_iter(it.opts)),
                    lastRet.val)

\* C10: FilterEntry yields no entry the predicate is false on, and no
\* descendant of a directory the predicate returned false on.
C10_FilterYieldsNoRejected ==
  \A i \in Entries :
    /\ predicate(rejected, yielded[i].ent)
    /\ \A k \in 1 .. Len(asked) :
         (asked[k].ty = "dir" /\ ~predicate(rejected, asked[k]))
           => ~Beneath(yielded[i].ent.path, asked[k].path)

\* The walk through FilterEntry is over: its next returned None, or panicked.
FilterDone == lastOp = "filter_next" /\ (~lastRet.some \/ it.panicked)

\* The predicate is true on the entry of path p and on every directory above it.
AcceptedPath(p) == \A k \in 1 .. Len(p) : p[k] \notin rejected

\* C11: FilterEntry yields every entry of the unfiltered walk on which the
\* predicate is true and whose ancestor directories all satisfy it: when the
\* filtered walk is over, none of them is missing.
C11_FilterYieldsAccepted ==
  FilterDone =>
    LET all == IntoIter_collect(fs, into_iter(it.opts)) IN
    \A k \in 1 .. Len(all) :
      (all[k].ok /\ AcceptedPath(all[k].ent.path))
        => \E i \in Entries : yielded[i] = all[k]

\* The iterator on which the last self.it.next() of a FilterEntry::next is
\* called: the one left by the entries the predicate rejected before it.
RECURSIVE BeforeLastInnerNext(_, _, _)
BeforeLastInnerNext(f, i, rej) ==
  LET r == IntoIter_next(f, i) IN
  IF r.it.panicked \/ ~r.ret.some \/ ~r.ret.val.ok \/ predicate(rej, r.ret.val.ent)
  THEN i
  ELSE BeforeLastInnerNext(f,
         IF r.ret.val.ent.ty = "dir" THEN skip_current_dir(r.it) ELSE r.it, rej)

\* C12: the predicate is called on no entry whose depth lies outside
\* [min_depth, max_depth]; and when FilterEntry::next returns an error, it is
\* the item the underlying next just returned, the iterator is as that call
\* left it (no skip_current_dir), and the predicate was called in this call
\* only on the entries rejected before.
C12_PredicateNotOnSuppressedOrErrors ==
  /\ [](\A k \in 1 .. Len(asked) : InWindow(asked[k].depth))
  /\ [][(lastOp' = "filter_next" /\ lastRet'.some /\ ~lastRet'.val.ok) =>
          LET r == IntoIter_next(fs, BeforeLastInnerNext(fs, it, rejected)) IN
          /\ it' = r.it
          /\ lastRet' = r.ret
          /\ \A k \in (Len(asked) + 1) .. Len(asked') : ~predicate(rejected, asked'[k])]_vars

\* FilterEntry::next has returned an error, after the predicate was called
\* on an entry, in a walk whose root lies outside the window and has a name
\* the predicate is false on.
C12_Witness ==
  /\ lastOp = "filter_next" /\ lastRet.some /\ ~lastRet.val.ok
  /\ asked # <<>>
  /\ it.opts.min_depth > 0 /\ 0 \in rejected

\* The file system f without what the error e concerns: the link of a loop
\* or the entry that could not be followed is gone; the directory that could
\* not be opened opens, and is empty.
WithoutError(f, e) ==
  LET p == IF e.kind = "loop" THEN e.child ELSE e.path
      md == fs_metadata(f, p)
  IN IF e.kind = "loop" \/ md = -1
     THEN [f EXCEPT !.parent = [c \in NodesOf(f) |-> IF c = Last(p) THEN -1 ELSE f.parent[c]]]
     ELSE EmptiedFs(f, md)

RECURSIVE WithoutErrors(_, _)
WithoutErrors(f, items) ==
  IF items = <<>> THEN f
  ELSE WithoutErrors(IF Head(items).ok THEN f ELSE WithoutError(f, Head(items).err),
                     Tail(items))

UnopenedDirs ==
  {d \in fs.openErr :
     /\ fs.kind[d] = "dir"
     /\ Len(NodePath(fs, d)) - 1 < it.opts.max_depth
     /\ \A a \in fs.openErr : ~IsUnder(fs, d, a)}

RecordsOf(p) == {i \in Entries : yielded[i].ent.path = p}

OpenErrorsOf(p) ==
  {i \in 1 .. Len(yielded) :
     ~yielded[i].ok /\ yielded[i].err.kind = "io" /\ yielded[i].err.path = p}

\* The open error of the directory of path p comes once, where the first
\* entry of the directory would: right after the directory's record, or
\* right before it with contents_first; and nothing beneath p is yielded.
OpenErrorInPlace(p) ==
  /\ Cardinality(OpenErrorsOf(p)) = 1
  /\ \A e \in OpenErrorsOf(p) : \A i \in RecordsOf(p) :
       i = IF it.opts.contents_first THEN e + 1 ELSE e - 1
  /\ \A i \in Entries : ~Beneath(yielded[i].ent.path, p)

\* C14 as stated: a directory below max_depth that cannot be opened has its
\* record yielded once, and its open error once, in the place of its first
\* entry.
C14_AsStated ==
  (NoSymlink /\ WalkDone) =>
    \A d \in UnopenedDirs :
      /\ Cardinality(RecordsOf(NodePath(fs, d))) = 1
      /\ OpenErrorInPlace(NodePath(fs, d))

\* C14 amended: the record is yielded once when the directory's depth is at
\* least min_depth, and not at all otherwise; the open error is yielded once
\* in both cases.
C14_OpenErrorOnceInPlace ==
  (NoSymlink /\ WalkDone) =>
    \A d \in UnopenedDirs :
      /\ Cardinality(RecordsOf(NodePath(fs, d)))
           = IF Len(NodePath(fs, d)) - 1 >= it.opts.min_depth THEN 1 ELSE 0
      /\ OpenErrorInPlace(NodePath(fs, d))

\* A walk is over that yielded the record and the open error of a directory
\* with contents, and a sibling of it afterwards.
C14_Witness ==
  /\ NoSymlink /\ WalkDone
  /\ \E d \in UnopenedDirs :
       /\ ChildrenOf(fs, d) # {}
       /\ RecordsOf(NodePath(fs, d)) # {}
       /\ \E e \in OpenErrorsOf(NodePath(fs, d)) : \E j \in Entries :
            e < j /\ Len(yielded[j].ent.path) = Len(NodePath(fs, d))

LoopErrors == {i \in 1 .. Len(yielded) : ~yielded[i].ok /\ yielded[i].err.kind = "loop"}

\* The paths of the directories above path p.
ProperPrefixes(p) == {SubSeq(p, 1, k) : k \in 1 .. (Len(p) - 1)}

\* The links that point to a directory above them, met by a walk that
\* follows links and goes as deep.
LoopLinks ==
  {l \in NodesOf(fs) :
     /\ fs.kind[l] = "symlink" /\ fs.parent[l] # -1
     /\ fs_metadata(fs, <<l>>) # -1
     /\ IsUnder(fs, l, fs_metadata(fs, <<l>>))
     /\ Len(NodePath(fs, l)) - 1 <= it.opts.max_depth}

\* An item, entry or error, was yielded for path p.
ItemFor(p) ==
  \E j \in 1 .. Len(yielded) :
    IF yielded[j].ok THEN yielded[j].ent.path = p
    ELSE yielded[j].err.path = p \/ yielded[j].err.child = p

\* C15: with follow_links on, a link that resolves to a directory which is
\* the same file as a directory above it gets a Loop error, whose child is
\* the link's path and whose ancestor is the nearest path above it that is
\* this file; no listing is pushed for the link and nothing is yielded at or
\* beneath it; the other entries of the link's directory are still yielded.
C15_LoopErrorForLinkToAncestor ==
  /\ \A i \in LoopErrors :
       LET c == yielded[i].err.child
           a == yielded[i].err.ancestor
       IN /\ it.opts.follow_links
          /\ fs.kind[Last(c)] = "symlink"
          /\ a \in ProperPrefixes(c)
          /\ fs_metadata(fs, a) = fs_metadata(fs, c)
          /\ fs.kind[fs_metadata(fs, c)] = "dir"
          /\ \A b \in ProperPrefixes(c) :
               Len(b) > Len(a) => fs_metadata(fs, b) # fs_metadata(fs, c)
          /\ \A j \in Entries : ~BeneathOrAt(yielded[j].ent.path, c)
  /\ it.opts.follow_links =>
       \A j \in Entries : yielded[j].ent.ty = "dir" =>
         \A b \in ProperPrefixes(yielded[j].ent.path) :
           fs_metadata(fs, b) # fs_metadata(fs, yielded[j].ent.path)
  /\ (lastOp = "next" /\ lastRet.some /\ ~lastRet.val.ok /\ lastRet.val.err.kind = "loop") =>
       /\ Len(it.stack_list) = Len(lastRet.val.err.child) - 1
       /\ it.stack_path # <<>> /\ Last(it.stack_path) = Front(lastRet.val.err.child)
  /\ (WalkDone /\ ~skipped /\ it.opts.follow_links) =>
       \A l \in LoopLinks :
         /\ \E i \in LoopErrors :
              /\ yielded[i].err.child = NodePath(fs, l)
              /\ yielded[i].err.ancestor = NodePath(fs, fs_metadata(fs, <<l>>))
         /\ \A sib \in ChildrenOf(fs, fs.parent[l]) :
              InWindow(Len(NodePath(fs, sib)) - 1) => ItemFor(NodePath(fs, sib))

\* A walk is over that yielded a Loop error and, after it, an entry of the
\* directory that holds the link.
C15_Witness ==
  /\ WalkDone
  /\ \E i \in LoopErrors : \E j \in Entries :
       i < j /\ Front(yielded[j].ent.path) = Front(yielded[i].err.child)

DirNodes == {d \in NodesOf(fs) : fs.kind[d] = "dir"}

\* The paths at or beneath p in which no directory is entered twice, links
\* being followed: seen holds the directories above p.
RECURSIVE PathsFrom(_, _, _)
PathsFrom(f, p, seen) ==
  LET md == fs_metadata(f, p) IN
  {p} \cup
    IF md # -1 /\ f.kind[md] = "dir" /\ md \notin seen
    THEN UNION {PathsFrom(f, Append(p, c), seen \cup {md}) : c \in ChildrenOf(f, md)}
    ELSE {}

\* C16: repeated next returns None after finitely many calls, whether links
\* are followed or not and whether they form loops or not.  A call that does
\* not return None adds the item it returns to those yielded; a path gets at
\* most an entry and an error, and the paths are the ones that enter no
\* directory twice, so that the number of such calls is bounded; the stack
\* never holds more listings than the file system has directories; and no
\* call panics.
C16_WalkEnds ==
  /\ ~it.panicked
  /\ Len(it.stack_list) <= Cardinality(DirNodes)
  /\ Len(yielded) <= 2 * Cardinality(PathsFrom(fs, RootPath, {}))
  /\ (lastOp = "next" /\ lastRet.some) => (yielded # <<>> /\ Last(yielded) = lastRet.val)

\* A walk that followed links is over, after a Loop error, with no limit on
\* the depth.
C16_Witness ==
  /\ WalkDone /\ it.opts.follow_links /\ it.opts.max_depth = UsizeMax
  /\ LoopErrors # {}

\* C17: once next has returned None it returns None again, and a
\* skip_current_dir in between changes nothing, whatever calls of
\* skip_current_dir came before and whether contents_first is on or not.
C17_NoneIsFinal ==
  (lastOp = "next" /\ ~lastRet.some /\ ~it.panicked) =>
    /\ ~IntoIter_next(fs, it).ret.some
    /\ skip_current_dir(it) = it

\* next has returned None in a contents_first walk in which directories
\* were skipped, and records of skipped directories are still deferred.
C17_Witness ==
  /\ lastOp = "next" /\ ~lastRet.some /\ ~it.panicked
  /\ skipped /\ it.opts.contents_first /\ yielded # <<>>
  /\ it.deferred_dirs # <<>>

\* The links of the tree that lie in the window, below the root.
LinksInWindow ==
  {l \in NodesOf(fs) :
     /\ l # 0 /\ fs.kind[l] = "symlink" /\ fs.parent[l] # -1
     /\ InWindow(Len(NodePath(fs, l)) - 1)}

\* C18: with follow_links off, the entry of a symlink below the root has
\* file type symlink, nothing is yielded beneath a symlink, also one that
\* points to a directory, and no Loop error is yielded; a walk without
\* skip_current_dir yields the entry of every link in the window.
C18_LinksNotFollowed ==
  ~it.opts.follow_links =>
    /\ \A i \in Entries :
         LET e == yielded[i].ent IN
         /\ (e.depth > 0 /\ fs.kind[Last(e.path)] = "symlink")
              => (e.ty = "symlink" /\ ~e.follow_link)
         /\ \A k \in 2 .. (Len(e.path) - 1) : fs.kind[e.path[k]] # "symlink"
    /\ \A i \in 1 .. Len(yielded) :
         ~yielded[i].ok =>
           /\ yielded[i].err.kind # "loop"
           /\ \A k \in 2 .. Len(yielded[i].err.path) :
                fs.kind[yielded[i].err.path[k]] # "symlink"
    /\ (WalkDone /\ ~skipped /\ fs.openErr = {}) =>
         \A l \in LinksInWindow : \E i \in Entries : yielded[i].ent.path = NodePath(fs, l)

\* A walk that does not follow links is over, and it yielded the entry of a
\* link to a directory and, after it, another entry.
C18_Witness ==
  /\ WalkDone /\ ~it.opts.follow_links
  /\ \E i, j \in Entries :
       /\ i < j
       /\ yielded[i].ent.ty = "symlink"
       /\ fs_metadata(fs, yielded[i].ent.path) # -1
       /\ fs.kind[fs_metadata(fs, yielded[i].ent.path)] = "dir"

\* The links the walk follows to the end: in the window, below the root,
\* with a target that exists and is no directory above the link.
FollowedLinks ==
  {l \in LinksInWindow : fs_metadata(fs, <<l>>) # -1 /\ l \notin LoopLinks}

\* C19: with follow_links on, the record yielded for a symlink has the path
\* of the link and the file type of the link's target, never symlink, and
\* its follow_link flag is set; a walk without skip_current_dir yields it,
\* and what a link to a directory holds is yielded under the link's path.
\* With follow_links off the record has the file type of the link itself.
C19_LinkRecordHasTargetType ==
  /\ \A i \in Entries :
       LET e == yielded[i].ent IN
       (e.depth > 0 /\ fs.kind[Last(e.path)] = "symlink") =>
         IF it.opts.follow_links
         THEN /\ e.ty = fs.kind[fs_metadata(fs, e.path)]
              /\ e.ty # "symlink"
              /\ e.follow_link
         ELSE e.ty = "symlink"
  /\ (WalkDone /\ ~skipped /\ fs.openErr = {} /\ it.opts.follow_links) =>
       \A l \in FollowedLinks :
         /\ \E i \in Entries : yielded[i].ent.path = NodePath(fs, l)
         /\ \A c \in ChildrenOf(fs, fs_metadata(fs, <<l>>)) :
              InWindow(Len(NodePath(fs, l))) => ItemFor(Append(NodePath(fs, l), c))

\* A walk that follows links is over, and it yielded the record of a link
\* to a directory, with file type dir, and an entry beneath the link's path.
C19_Witness ==
  /\ WalkDone /\ it.opts.follow_links
  /\ \E i, j \in Entries :
       /\ fs.kind[Last(yielded[i].ent.path)] = "symlink"
       /\ yielded[i].ent.ty = "dir"
       /\ Beneath(yielded[j].ent.path, yielded[i].ent.path)

\* C20: the record yielded for the root has its follow_link flag false, so
\* the record of a root that is an ordinary directory is not reported as a
\* symbolic link by path_is_symbolic_link, with follow_links on and off.
C20_RootNotSymlink ==
  \A i \in Entries :
    LET e == yielded[i].ent IN
    e.depth = 0 =>
      /\ ~e.follow_link
      /\ (fs.kind[0] = "dir" => ~path_is_symbolic_link(e))

\* The root path is a symbolic link to a directory.
RootIsLinkToDir ==
  fs.kind[0] = "symlink" /\ fs_metadata(fs, RootPath) # -1
    /\ fs.kind[fs_metadata(fs, RootPath)] = "dir"

\* C21: when the root path is a symlink to a directory, follow_links on or
\* off, repeated next() returns no error, the record of the root when depth 0
\* is in the window, and a record with the link's path extended by the name
\* for every entry of the target directory when depth 1 is in the window; in
\* the default order the root's record comes first.
C21_RootLinkIsDescended ==
  RootIsLinkToDir =>
    /\ \A i \in 1 .. Len(yielded) : yielded[i].ok
    /\ (~it.opts.contents_first /\ InWindow(0) /\ yielded # <<>>) =>
         IsRootRecord(yielded[1])
    /\ WalkDone =>
         /\ InWindow(0) => \E i \in Entries : IsRootRecord(yielded[i])
         /\ InWindow(1) =>
              \A c \in ChildrenOf(fs, fs_metadata(fs, RootPath)) :
                \E i \in Entries :
                  /\ yielded[i].ent.path = Append(RootPath, c)
                  /\ yielded[i].ent.depth = 1

\* A walk with follow_links off from a link to a directory of two files is
\* over, and it yielded the root and then both files under the link's path.
C21_Witness ==
  /\ WalkDone /\ RootIsLinkToDir /\ ~it.opts.follow_links
  /\ Len(yielded) = 3 /\ IsRootRecord(yielded[1])
  /\ {yielded[2].ent.path, yielded[3].ent.path} = {<<0, 2>>, <<0, 3>>}

\* The root path is a symbolic link to a file.
RootIsLinkToFile ==
  fs.kind[0] = "symlink" /\ fs_metadata(fs, RootPath) # -1
    /\ fs.kind[fs_metadata(fs, RootPath)] = "file"

\* C22: when the root path is a symlink to a file, the record yielded for it
\* reports, by file_type() and by metadata(), a symlink with follow_links
\* off and the file type of the target with follow_links on; it is the only
\* item of the walk.
C22_RootLinkToFileType ==
  RootIsLinkToFile =>
    /\ \A i \in 1 .. Len(yielded) :
         LET e == yielded[i].ent IN
         /\ yielded[i].ok /\ e.path = RootPath /\ i = 1
         /\ IF it.opts.follow_links
            THEN /\ DirEntry_file_type(e) = "file"
                 /\ DirEntry_metadata(fs, e) = "file"
            ELSE /\ DirEntry_file_type(e) = "symlink"
                 /\ DirEntry_metadata(fs, e) = "symlink"
    /\ (WalkDone /\ InWindow(0)) => Len(yielded) = 1

\* Entries i and j of yielded come from the same directory.
Siblings(i, j) ==
  /\ yielded[i].ent.depth > 0 /\ yielded[i].ent.depth = yielded[j].ent.depth
  /\ Front(yielded[i].ent.path) = Front(yielded[j].ent.path)

C24_BuilderOptionsValid ==
  /\ wd.min_depth <= wd.max_depth
  /\ wd.max_open >= 1
  /\ WalkDir_max_open(wd, 0).max_open = 1

\* max_open(0) was the last call, after a min_depth above max_depth was
\* clamped to it.
C24_Witness ==
  /\ lastOp = "max_open" /\ wd.max_open = 1
  /\ wd.min_depth = DepthCap /\ wd.max_depth = DepthCap

\* The device of what path p resolves to; -1 when it resolves to nothing.
DeviceOf(p) ==
  IF fs_metadata(fs, p) = -1 THEN -1 ELSE fs.dev[fs_metadata(fs, p)]

\* Path p resolves to a directory on another device than the root's.
ForeignDir(p) ==
  /\ fs_metadata(fs, p) # -1
  /\ fs.kind[fs_metadata(fs, p)] = "dir"
  /\ DeviceOf(p) # DeviceOf(RootPath)

\* The nodes the root directory holds, at any depth.
RECURSIVE Inside(_, _)
Inside(f, node) ==
  node = 0 \/ (f.parent[node] # -1 /\ Inside(f, f.parent[node]))

\* The paths of the walk where it meets another device: a foreign directory,
\* or with follow_links a link to one, under directories of the root's device.
MountPoints ==
  {p \in {NodePath(fs, node) : node \in {m \in NodesOf(fs) : Inside(fs, m)}} :
     /\ Len(p) > 1 /\ ForeignDir(p)
     /\ (it.opts.follow_links \/ fs.kind[Last(p)] = "dir")
     /\ \A k \in 1 .. (Len(p) - 1) : ~ForeignDir(SubSeq(p, 1, k))}

\* C25: with same_file_system on, no item, record or error, has a path
\* beneath a directory of another device than the root's, no error is about
\* such a directory, and a walk without skip_current_dir yields the record
\* of the directory itself when its depth is in the window.
C25_StaysOnRootDevice ==
  it.opts.same_file_system =>
    /\ \A i \in 1 .. Len(yielded) :
         LET p == IF yielded[i].ok THEN yielded[i].ent.path ELSE yielded[i].err.path IN
         /\ \A k \in 2 .. (Len(p) - 1) : ~ForeignDir(SubSeq(p, 1, k))
         /\ ~yielded[i].ok => (p = <<>> \/ Len(p) = 1 \/ ~ForeignDir(p))
    /\ (WalkDone /\ ~skipped) =>
         \A p \in MountPoints :
           InWindow(Len(p) - 1) =>
             \E i \in Entries : yielded[i].ent.path = p /\ yielded[i].ent.ty = "dir"

\* A walk with same_file_system on is over: it yielded the record of a
\* directory of another device that holds entries, and entries that come
\* after it in the directory that holds it.
C25_Witness ==
  /\ WalkDone /\ it.opts.same_file_system /\ ~skipped
  /\ \E i, j \in Entries :
       /\ i < j /\ ForeignDir(yielded[i].ent.path)
       /\ ChildrenOf(fs, fs_metadata(fs, yielded[i].ent.path)) # {}
       /\ Siblings(i, j)

\* C26: after every call of next or skip_current_dir, oldest_opened is at
\* most the length of stack_list.
C26_OldestOpenedWithinStack == it.oldest_opened <= Len(it.stack_list)

\* C27: after every call of next or skip_current_dir, every listing of the
\* stack at an index below oldest_opened is Closed: the listing push closes
\* is the shallowest one that holds an open handle.
C27_ClosedBelowOldestOpened ==
  /\ \A i \in 1 .. Len(it.stack_list) :
       i <= it.oldest_opened => ~HoldsHandle(it.stack_list[i])
  /\ (~it.opts.sorter /\ Len(it.stack_list) - it.oldest_opened = it.opts.max_open) =>
       it.stack_list[it.oldest_opened + 1].tag = "Opened"

\* Two listings were closed by push: both lie below oldest_opened, and the
\* listing at oldest_opened holds an open handle.
C27_Witness ==
  /\ it.oldest_opened = 2 /\ Len(it.stack_list) = 3
  /\ HoldsHandle(it.stack_list[3])
  /\ it.stack_list[1].tag = "Closed" /\ it.stack_list[2].tag = "Closed"
  /\ ~it.opts.sorter

\* C28: no interleaving of next and skip_current_dir makes next panic: the
\* subtraction in push does not underflow, pop finds a listing on the stack
\* and, with follow_links, a path on the path stack, and get_deferred_dir
\* finds a deferred record.
C28_NextNeverPanics == ~it.panicked

\* C29: after every call of next or skip_current_dir, stack_path is as long
\* as stack_list when follow_links is on, and empty when it is off.
C29_PathStackInLockstep ==
  IF it.opts.follow_links
  THEN Len(it.stack_path) = Len(it.stack_list)
  ELSE it.stack_path = <<>>

\* With follow_links on, skip_current_dir has popped a listing and its path
\* while two listings were on the stack.
C29_Witness ==
  /\ it.opts.follow_links /\ lastOp = "skip"
  /\ Len(it.stack_list) = 1 /\ Len(it.stack_path) = 1
  /\ \E i \in Entries : yielded[i].ent.depth = 1 /\ yielded[i].ent.ty = "dir"

\* C30: with contents_first on, when skip_current_dir pops the listing of a
\* directory, the deferred record of that directory (the last deferred one,
\* as long as every listing of the stack has its deferred record) is
\* discarded, and no later next() yields it.
C30_SkipDiscardsDeferred ==
  [][(/\ lastOp' = "skip" /\ it.opts.contents_first
      /\ it.stack_list # <<>> /\ Len(it.deferred_dirs) = Len(it.stack_list))
     => /\ it'.deferred_dirs = Front(it.deferred_dirs)
        /\ \A k \in 1 .. Len(IntoIter_collect(fs, it')) :
             IntoIter_collect(fs, it')[k] # Ok(Last(it.deferred_dirs))]_vars

\* C31: a listing is pushed only for a directory whose depth is below
\* max_depth, so that after every call the stack holds at most max_depth
\* listings (the listing of a directory of depth d lies at index d + 1), and
\* push closes no listing on account of a directory at max_depth.
C31_NoListingAtMaxDepth == Len(it.stack_list) <= it.opts.max_depth

\* The path an item is about: the entry's, or the one its error carries.
ItemPath(r) == IF r.ok THEN r.ent.path ELSE r.err.path

\* Items i and j of yielded were read from the same directory.
SameListing(i, j) ==
  /\ Len(ItemPath(yielded[i])) > 1
  /\ Len(ItemPath(yielded[i])) = Len(ItemPath(yielded[j]))
  /\ Front(ItemPath(yielded[i])) = Front(ItemPath(yielded[j]))

\* The place of name c in the order the platform lists its directory.
ListedAt(c) ==
  CHOOSE k \in 1 .. Len(ListingOf(fs, fs.parent[c])) : ListingOf(fs, fs.parent[c])[k] = c

\* C32: with sort_by set, of the items read from one directory every entry
\* comes before every error, and the errors come in the order in which the
\* directory was read.
C32_SortedEntriesBeforeErrors ==
  it.opts.sorter =>
    \A i, j \in 1 .. Len(yielded) :
      (i < j /\ SameListing(i, j)) =>
        /\ ~(~yielded[i].ok /\ yielded[j].ok)
        /\ (~yielded[i].ok /\ ~yielded[j].ok) =>
             ListedAt(Last(ItemPath(yielded[i]))) < ListedAt(Last(ItemPath(yielded[j])))

\* C33: with sort_by set every listing is stored Closed and none counts
\* against max_open: push never advances oldest_opened.
C33_SortedListingsNotCounted == it.opts.sorter => it.oldest_opened = 0

\* The listings reached in a walk: those on the stack, and each after any
\* number of calls of next.
RECURSIVE ListingsFrom(_, _)
ListingsFrom(f, list) ==
  LET r == DirList_next(f, list) IN
  IF ~r.ret.some THEN {list} ELSE {list} \cup ListingsFrom(f, r.list)

StackListings ==
  UNION {ListingsFrom(fs, it.stack_list[k]) : k \in 1 .. Len(it.stack_list)}

\* C34: close on an Opened listing gives a listing from which next returns
\* the same items in the same order as from the listing left open, a
\* pending error of read_dir included; close on a Closed listing leaves it
\* as it is.
C34_CloseKeepsItems ==
  \A list \in StackListings :
    /\ DirList_collect(fs, DirList_close(fs, list)) = DirList_collect(fs, list)
    /\ DirList_close(fs, list).tag = "Closed"
    /\ list.tag = "Closed" => DirList_close(fs, list) = list

\* The stack holds an open listing with an entry still to read, and above it
\* a listing that holds the error of read_dir, not yet returned.
C34_Witness ==
  \E a, b \in StackListings :
    /\ a.tag = "Opened" /\ a.ok /\ a.rd.rest # <<>>
    /\ b.tag = "Opened" /\ ~b.ok /\ b.err.some

\* Path p names a symlink that resolves to nothing: its target is missing, or
\* the links lead back to itself.
Unresolved(p) ==
  p # <<>> /\ fs.kind[Last(p)] = "symlink" /\ fs_metadata(fs, p) = -1

\* The links in the root directory that resolve to nothing.
UnresolvedLinks ==
  {l \in NodesOf(fs) : l # 0 /\ fs.parent[l] = 0 /\ Unresolved(NodePath(fs, l))}

\* C35: with follow_links on, every item yielded for a symlink that cannot be
\* resolved is an I/O error with the link's path and depth, never an entry
\* and never a Loop error; next returns it without pushing a listing; and a
\* walk without skip_current_dir yields it once for each such link of the
\* root directory, when max_depth lets the directory be read.
C35_UnresolvedLinkGivesIoError ==
  it.opts.follow_links =>
    /\ \A i \in 1 .. Len(yielded) :
         /\ yielded[i].ok => ~Unresolved(yielded[i].ent.path)
         /\ (~yielded[i].ok /\ yielded[i].err.kind = "loop") =>
              ~Unresolved(yielded[i].err.child)
         /\ (~yielded[i].ok /\ Unresolved(yielded[i].err.path)) =>
              /\ yielded[i].err.kind = "io"
              /\ yielded[i].err.depth = Len(yielded[i].err.path) - 1
    /\ (lastOp = "next" /\ lastRet.some /\ ~lastRet.val.ok
          /\ Unresolved(lastRet.val.err.path)) =>
         Len(it.stack_list) = Len(lastRet.val.err.path) - 1
    /\ (WalkDone /\ ~skipped /\ it.opts.max_depth >= 1) =>
         \A l \in UnresolvedLinks :
           Cardinality({i \in 1 .. Len(yielded) :
             ~yielded[i].ok /\ yielded[i].err.path = NodePath(fs, l)}) = 1

\* A walk that follows links is over: it yielded an I/O error for a link
\* whose target is missing and one for a link to itself.
C35_Witness ==
  /\ WalkDone /\ it.opts.follow_links
  /\ \E i, j \in 1 .. Len(yielded) :
       /\ ~yielded[i].ok /\ ~yielded[j].ok
       /\ Unresolved(yielded[i].err.path) /\ Unresolved(yielded[j].err.path)
       /\ fs.target[Last(yielded[i].err.path)] = -1
       /\ fs.target[Last(yielded[j].err.path)] = Last(yielded[j].err.path)

\* C36: in the Windows is_same_file both handles are open when the file
\* information of either is read and when the two tuples are compared; the
\* boolean returned says whether volume serial, file index and file size all
\* agree; and the call returns an error, no boolean, exactly when a path
\* cannot be opened or a handle cannot be queried.  No handle is left open.
C36_BothHandlesOpenWhileCompared ==
  /\ \A h \in DOMAIN sf.readAt : sf.readAt[h] = {1, 2}
  /\ sf.cmpAt \in {{-1}, {1, 2}}
  /\ sf.ret.done =>
       LET failed == \/ sf.p1 \notin DOMAIN sf.files \/ sf.p2 \notin DOMAIN sf.files
                     \/ sf.fails # {}
       IN /\ sf.ret.ok = ~failed
          /\ sf.ret.ok => /\ sf.cmpAt = {1, 2}
                          /\ sf.ret.same = (sf.files[sf.p1] = sf.files[sf.p2])
  /\ sf.pc = "done" => sf.open = {}

\* The call returned false for two files that differ in the volume serial
\* number only.
C36_Witness ==
  /\ sf.pc = "done" /\ sf.ret.ok /\ ~sf.ret.same
  /\ sf.i1[1] # sf.i2[1] /\ \A k \in 2 .. 5 : sf.i1[k] = sf.i2[k]

\* The reads up to the first Ok(None): the index of the first Ok(None), or
\* one past the last read.
FirstNone ==
  IF \E i \in 1 .. Len(reads) : reads[i].tag = "none"
  THEN CHOOSE i \in 1 .. Len(reads) :
         reads[i].tag = "none" /\ \A j \in 1 .. (i - 1) : reads[j].tag # "none"
  ELSE Len(reads) + 1

\* C37: for a tree read without errors, the reads before the first Ok(None)
\* are entries, the first is the root, each has the path of a node of the
\* tree (the root path, then the names of its ancestors, then its own; no
\* `.` or `..`), no path comes twice, the first Ok(None) comes after every
\* node has been yielded, and the working path is the root path when Ok(None)
\* is returned.
C37_CursorYieldsTreeOnce ==
  fs.openErr = {} =>
    /\ \A i \in 1 .. (FirstNone - 1) :
         /\ reads[i].tag = "entry"
         /\ \E node \in NodesOf(fs) : reads[i].path = NodePath(fs, node)
         /\ i = 1 => reads[i].path = RootPath
         /\ \A j \in 1 .. (i - 1) : reads[j].path # reads[i].path
    /\ FirstNone <= Len(reads) => FirstNone = fs.n + 1
    /\ FirstNone = Len(reads) => cur.current = RootPath

\* C38: once read has returned Ok(None), a later read returns Ok(None) and
\* leaves the stack and the working path as they are.
C38_ExhaustedCursorStaysExhausted ==
  [][(reads # <<>> /\ Last(reads).tag = "none" /\ reads' # reads) =>
       /\ Last(reads').tag = "none"
       /\ cur'.stack = cur.stack
       /\ cur'.current = cur.current]_vars

\* C39: every directory that cannot be opened gives one error and no more,
\* no path is yielded twice before Ok(None), the stack is not deeper than the
\* tree before Ok(None), and Ok(None) has been returned once more reads were
\* made than the tree has entries and errors.
C39_OpenErrorReportedOnce ==
  /\ Cardinality({i \in 1 .. (FirstNone - 1) : reads[i].tag = "err"}) <= Cardinality(fs.openErr)
  /\ \A i \in 1 .. (FirstNone - 1) : \A j \in 1 .. (i - 1) :
       reads[i].tag = "entry" /\ reads[j].tag = "entry" => reads[j].path # reads[i].path
  /\ FirstNone > Len(reads) =>
       Len(cur.stack) <= Max({Len(NodePath(fs, node)) : node \in NodesOf(fs)})
  /\ Len(reads) > fs.n + Cardinality(fs.openErr) => FirstNone <= Len(reads)

\* C40: after rewind, whatever was read before it, the reads return the
\* records of the buffer from the first one on, in order, each once, and then
\* None.
C40_RewindRestartsAtFirstEntry ==
  decLog.rewound =>
    \A i \in 1 .. Len(decLog.after) :
      decLog.after[i] = IF i <= Len(dec.buf) THEN dec.buf[i].name ELSE 0

====
